---- MODULE Spec2Model ----
(***************************************************************************)
(* The BLE device session manager and its cross-process state mirror.      *)
(*                                                                         *)
(* Host (packages/main/src/modules/BluetoothModule.ts): the adapter state, *)
(* the scan controller, the device registry and the connect / disconnect   *)
(* handlers, together with the noble driver they talk to.  Spec is the     *)
(* host with commands from any caller.                                     *)
(*                                                                         *)
(* Renderer (BluetoothService and the bluetooth store): the UI Mirror of   *)
(* the registry, fed by pushes and by polls.  MirrorSpec is host and       *)
(* renderer together, every command coming from the renderer.  LinkSpec is *)
(* the host together with the link state of the driver's peripherals.      *)
(*                                                                         *)
(* The registry is a Map from device id to a JavaScript object, and the    *)
(* connect / disconnect handlers keep a reference to the object they read  *)
(* at invocation across their awaits.  Object identity therefore matters   *)
(* and is modelled with an explicit heap: devices maps an id to a          *)
(* reference, heap maps a reference to the object's fields.                *)
(***************************************************************************)
EXTENDS Naturals, Integers, Sequences, FiniteSets, TLC

VARIABLES
    nobleState,   \* noble.state, the adapter state the driver reports
    drvScanning,  \* whether the driver is scanning (noble.startScanning / stopScanning)
    peripherals,  \* the ids present in noble.peripherals
    mainWindow,   \* this.mainWindow is set
    devices,      \* this.devices: device id -> reference of its record
    heap,         \* reference -> fields of the BluetoothDevice object
    isScanning,   \* this.isScanning
    handlers,     \* the connect / disconnect handler invocations in flight
    last,         \* what the most recent step was, returned and pushed
    resumeDue,    \* history: a scan was active when the adapter left 'poweredOn' and
                  \* neither stopScan nor a return to 'poweredOn' has happened since
    service,      \* the renderer's BluetoothService: its fields and its suspended call
    store,        \* the renderer's bluetooth store
    inbox,        \* pushes and command results on their way to the renderer
    linked,       \* the ids whose peripheral.state is 'connected' at the driver
    twin,         \* a second host that receives the same commands and driver
                  \* callbacks and never has a window
    poll,         \* the components that use the store: poll timers and listeners
    ipc           \* the preload's bluetooth.on: the listeners on ipcRenderer

hostVars == <<nobleState, drvScanning, peripherals, mainWindow, devices, heap,
              isScanning, handlers, last, resumeDue>>

rendererVars == <<service, store, inbox>>

vars == <<nobleState, drvScanning, peripherals, mainWindow, devices, heap,
          isScanning, handlers, last, resumeDue, service, store, inbox, linked,
          twin, poll, ipc>>

\* the variables of TwinSpec, PollSpec and PreloadSpec
auxVars == <<twin, poll, ipc>>

-----------------------------------------------------------------------------
(* Bounds and input sets *)

\* number of connect / disconnect invocations that may be suspended at once
NumHandlers == 2

\* number of peripherals in radio range
NumDevices == 1

\* the ids and hardware addresses peripherals may have
PeripheralIds == <<"d1", "d2", "d3">>
PeripheralAddresses == <<"aa:bb:cc:00:00:01", "aa:bb:cc:00:00:02", "aa:bb:cc:00:00:03">>

IdSeq == SubSeq(PeripheralIds, 1, NumDevices)
DeviceIds == {IdSeq[i] : i \in DOMAIN IdSeq}

\* the ids a command may name: those of the peripherals and one no peripheral has
CommandIds == DeviceIds \cup {"d9"}

AdapterStates == {"unknown", "poweredOn", "poweredOff"}

\* messages of the Error objects the driver hands to its callbacks
DriverErrors == {"Connection timeout", "Peripheral disconnected"}

\* uuid lists of the services a peripheral may report on discoverServices
ServiceLists == {<<"180a", "180f">>}

None == <<>>
Some(x) == <<x>>

\* what a peripheral may advertise: the local name and the service uuids are optional
Advertisements ==
    { [localName |-> None, serviceUuids |-> None, rssi |-> -60],
      [localName |-> Some("Tiresias"), serviceUuids |-> Some(<<"180a">>), rssi |-> -72] }

Slots == 1..NumHandlers
NoRef == 0
Refs == 1..(Len(IdSeq) + NumHandlers + 1)

-----------------------------------------------------------------------------
(* Helpers *)

Min(S) == CHOOSE x \in S : \A y \in S : x <= y

Restrict(f, S) == [x \in S |-> f[x]]

\* Put that keeps the value a key already has
Put_KeepFirst(f, k, v) == [x \in DOMAIN f \cup {k} |-> IF x \in DOMAIN f THEN f[x] ELSE v]

\* map.set(k, v)
Put(f, k, v) == [x \in DOMAIN f \cup {k} |-> IF x = k THEN v ELSE f[x]]

IdIndex(id) == CHOOSE i \in DOMAIN IdSeq : IdSeq[i] = id

\* peripheral.address
Address(id) == PeripheralAddresses[IdIndex(id)]

\* OrElse that always takes the default
OrElse_Default(opt, dflt) == dflt

\* a || b on an optional value
OrElse(opt, dflt) == IF opt = None THEN dflt ELSE opt[1]

\* the object literal built by the 'discover' listener
NewDevice(id, adv) ==
    [id |-> id,
     name |-> OrElse(adv.localName, "Unknown Device"),
     address |-> Address(id),
     rssi |-> adv.rssi,
     state |-> "disconnected",
     services |-> OrElse(adv.serviceUuids, <<>>)]

\* if (this.mainWindow) this.mainWindow.webContents.send(channel, payload)
Send(win, channel, payload) ==
    IF win THEN <<[channel |-> channel, payload |-> payload]>> ELSE <<>>

\* return { success: true, message: msg }
Ok(msg) == [success |-> TRUE, message |-> msg]

\* Fail that lets the error leave the handler: the invoke is rejected with it
Fail_Rejected(msg) == [rejected |-> msg]

\* return { success: false, error: msg }
Fail(msg) == [success |-> FALSE, error |-> msg]

IdleHandler == [op |-> "none", id |-> "", pc |-> "idle", dev |-> NoRef, log |-> <<>>]

Active(h) == handlers[h].pc # "idle"

FreeSlots == {h \in Slots : ~Active(h)}

\* references still reachable from the registry or from a suspended handler
Reachable(devs, hs) ==
    {devs[i] : i \in DOMAIN devs} \cup ({hs[h].dev : h \in Slots} \ {NoRef})

\* The name of a reference is immaterial.  Every live object gets one fixed name:
\* the record the registry holds for an id is named after the id, an object only
\* a suspended handler still holds is named after the first such handler.
Canon(devs, hs, r) ==
    IF \E i \in DOMAIN devs : devs[i] = r
    THEN IdIndex(CHOOSE i \in DOMAIN devs : devs[i] = r)
    ELSE Len(IdSeq) + Min({h \in Slots : hs[h].dev = r})

\* the registry, heap and handlers with unreferenced objects reclaimed and the
\* live ones renamed
Normalize(devs, hp, hs) ==
    LET live == Reachable(devs, hs)
    IN [devices |-> [i \in DOMAIN devs |-> Canon(devs, hs, devs[i])],
        heap |-> [c \in {Canon(devs, hs, r) : r \in live} |->
                     hp[CHOOSE r \in live : Canon(devs, hs, r) = c]],
        handlers |-> [h \in Slots |->
                        IF hs[h].dev = NoRef THEN hs[h]
                        ELSE [hs[h] EXCEPT !.dev = Canon(devs, hs, hs[h].dev)]]]

Commit(devs, hp, hs) ==
    LET n == Normalize(devs, hp, hs)
    IN /\ devices' = n.devices
       /\ heap' = n.heap
       /\ handlers' = n.handlers

\* a reference for a newly created object
NewRef == Min(Refs \ DOMAIN heap)

\* this.devices.get(id), NoRef standing for undefined
Get(devs, id) == IF id \in DOMAIN devs THEN devs[id] ELSE NoRef

\* Array.from(this.devices.values())
DeviceList == {heap[devices[i]] : i \in DOMAIN devices}

\* What a step did.  act names the listener or handler, id its device, res is the
\* value it returned to the caller (None while the handler is suspended or for a
\* listener), sent the pushes it made to the renderer, and log what it executed, in
\* program order; for a connect / disconnect handler log runs from its invocation.
\* The entry <<"notify", x>> stands for reaching the statement
\* `if (this.mainWindow) this.mainWindow.webContents.send(...)`: whether a push was
\* made is told by sent.
Step(act, id, res, sent, log) ==
    [act |-> act, id |-> id, res |-> res, sent |-> sent, log |-> log]

-----------------------------------------------------------------------------
(* Scan controller *)

\* startScanning that switches the scan off when it is on
startScanning_Toggle(st, drv, scanning) ==
    IF st = "poweredOn"
    THEN [drv |-> ~drv, scanning |-> ~scanning, log |-> << <<"call", "startScanning">> >>]
    ELSE [drv |-> drv, scanning |-> scanning, log |-> <<>>]

\* startScanning(): asks the driver to scan only when the adapter is powered on
startScanning(st, drv, scanning) ==
    IF st = "poweredOn"
    THEN [drv |-> TRUE, scanning |-> TRUE, log |-> << <<"call", "startScanning">> >>]
    ELSE [drv |-> drv, scanning |-> scanning, log |-> <<>>]

\* stopScanning that clears the flag and leaves the driver scanning
stopScanning_FlagOnly ==
    [drv |-> drvScanning, scanning |-> FALSE, log |-> << <<"call", "stopScanning">> >>]

\* stopScanning that does nothing
stopScanning_Nothing ==
    [drv |-> drvScanning, scanning |-> isScanning, log |-> <<>>]

\* stopScanning()
stopScanning ==
    [drv |-> FALSE, scanning |-> FALSE, log |-> << <<"call", "stopScanning">> >>]

-----------------------------------------------------------------------------
HostInit ==
    /\ nobleState = "unknown"
    /\ drvScanning = FALSE
    /\ peripherals = {}
    /\ mainWindow = FALSE
    /\ devices = <<>>
    /\ heap = <<>>
    /\ isScanning = FALSE
    /\ handlers = [h \in Slots |-> IdleHandler]
    /\ last = Step("init", "", None, <<>>, <<>>)
    /\ resumeDue = FALSE

\* no command method of the service is suspended
NoCall == [op |-> "none", id |-> "", dev |-> None]

\* The renderer after `new BluetoothService()` and the creation of the store.
\* Of the store: devices holds the ids of its list (the objects are those of the
\* Mirror), connectionStatus[id] is '' for a key the object does not hold, which
\* is how the store reads it (`connectionStatus.value[id] || ''`), and timers[id]
\* counts the pending setTimeout callbacks for id.  scanError and the store's
\* copy of bluetoothState are written and never read by the store, and are left out.
RendererInit ==
    /\ service = [devices |-> <<>>, isScanning |-> FALSE, bluetoothState |-> "unknown",
                  call |-> NoCall]
    /\ store = [devices |-> {}, isScanning |-> FALSE,
                connectionStatus |-> [id \in DeviceIds |-> ""],
                timers |-> [id \in DeviceIds |-> 0]]
    /\ inbox = <<>>

\* no peripheral is connected when the module is constructed
LinkInit == linked = {}

\* the second host starts as the first
TwinInit ==
    twin = [devices |-> <<>>, heap |-> <<>>, isScanning |-> FALSE, drvScanning |-> FALSE,
            handlers |-> [h \in Slots |-> IdleHandler], res |-> None, sent |-> <<>>]

\* no component is mounted: the store's updateInterval is null, no interval runs
\* and the service's eventListeners map is empty
PollInit ==
    poll = [updateInterval |-> None, intervals |-> {}, listeners |-> 0, mounted |-> 0]

\* no listener is registered on ipcRenderer
PreloadInit ==
    ipc = [listeners |-> <<>>, subscriptions |-> <<>>, invoked |-> <<>>]

Init == HostInit /\ RendererInit /\ LinkInit /\ TwinInit /\ PollInit /\ PreloadInit

\* setMainWindow(window)
SetMainWindow ==
    /\ ~mainWindow
    /\ mainWindow' = TRUE
    /\ last' = Step("setMainWindow", "", None, <<>>, <<>>)
    /\ UNCHANGED <<resumeDue, nobleState, drvScanning, peripherals, devices, heap, isScanning, handlers>>

\* noble.on('stateChange'): the driver reports a new adapter state
StateChange(s) ==
    /\ s # nobleState
    /\ nobleState' = s
    /\ LET r == IF s = "poweredOn" /\ isScanning
                THEN startScanning(s, drvScanning, isScanning)
                ELSE IF s # "poweredOn"
                     THEN stopScanning
                     ELSE [drv |-> drvScanning, scanning |-> isScanning, log |-> <<>>]
       IN /\ drvScanning' = r.drv
          /\ isScanning' = r.scanning
          /\ last' = Step("stateChange", "", None,
                          Send(mainWindow, "bluetooth:stateChange", s),
                          << <<"notify", "stateChange">> >> \o r.log)
    /\ resumeDue' = IF s = "poweredOn" THEN FALSE ELSE (resumeDue \/ isScanning)
    /\ UNCHANGED <<peripherals, mainWindow, devices, heap, handlers>>

\* noble.on('discover'): the driver reports an advertisement of peripheral id
Discover(id, adv) ==
    /\ drvScanning
    /\ peripherals' = peripherals \cup {id}
    /\ LET device == NewDevice(id, adv)
       IN /\ Commit(Put(devices, id, NewRef), Put(heap, NewRef, device), handlers)
          /\ last' = Step("discover", id, None,
                          Send(mainWindow, "bluetooth:deviceDiscovered", device),
                          << <<"set", id>>, <<"notify", "deviceDiscovered">> >>)
    /\ UNCHANGED <<resumeDue, nobleState, drvScanning, mainWindow, isScanning>>

\* adapterReady without the check
adapterReady_Skipped(st) == TRUE

\* the adapter check of bluetooth:startScan
adapterReady(st) == st = "poweredOn"

\* clear that keeps the records
clear_Kept(devs) == devs

\* this.devices.clear()
clear(devs) == <<>>

\* ipcMain.handle('bluetooth:startScan')
StartScan ==
    IF ~adapterReady(nobleState)
    THEN /\ last' = Step("startScan", "",
                         Some(Fail(<<"Bluetooth adapter not ready (state: ", nobleState,
                                     "). Please ensure Bluetooth is enabled on your system.">>)),
                         <<>>, << <<"return", "fail">> >>)
         /\ UNCHANGED <<resumeDue, nobleState, drvScanning, peripherals, mainWindow, devices, heap,
                        isScanning, handlers>>
    ELSE LET r == startScanning(nobleState, drvScanning, isScanning)
         IN /\ Commit(clear(devices), heap, handlers)
            /\ drvScanning' = r.drv
            /\ isScanning' = r.scanning
            /\ last' = Step("startScan", "", Some(Ok(<<"Scanning started">>)),
                            <<>>, << <<"clear", "devices">> >> \o r.log
                                  \o << <<"return", "ok">> >>)
            /\ UNCHANGED <<resumeDue, nobleState, peripherals, mainWindow>>

\* ipcMain.handle('bluetooth:stopScan')
StopScan ==
    /\ drvScanning' = stopScanning.drv
    /\ isScanning' = stopScanning.scanning
    /\ last' = Step("stopScan", "", Some(Ok(<<"Scanning stopped">>)),
                    <<>>, stopScanning.log \o << <<"return", "ok">> >>)
    /\ resumeDue' = FALSE
    /\ UNCHANGED <<nobleState, peripherals, mainWindow, devices, heap, handlers>>

\* ipcMain.handle('bluetooth:getDevices')
GetDevices ==
    /\ last' = Step("getDevices", "", Some(DeviceList), <<>>, << <<"return", "ok">> >>)
    /\ UNCHANGED <<resumeDue, nobleState, drvScanning, peripherals, mainWindow, devices, heap,
                   isScanning, handlers>>

-----------------------------------------------------------------------------
(* Connection handlers *)

\* setState that writes the record only when a window is set
setState_NeedsWindow(hp, ref, st, win) ==
    IF ref = NoRef \/ ~win
    THEN [heap |-> hp, sent |-> <<>>, log |-> <<>>]
    ELSE LET hp1 == [hp EXCEPT ![ref].state = st]
         IN [heap |-> hp1,
             sent |-> Send(win, "bluetooth:deviceUpdated", hp1[ref]),
             log |-> << <<"set", st>>, <<"notify", st>> >>]

\* if (device) { device.state = st; if (this.mainWindow) send('bluetooth:deviceUpdated', device) }
setState(hp, ref, st, win) ==
    IF ref = NoRef
    THEN [heap |-> hp, sent |-> <<>>, log |-> <<>>]
    ELSE LET hp1 == [hp EXCEPT ![ref].state = st]
         IN [heap |-> hp1,
             sent |-> Send(win, "bluetooth:deviceUpdated", hp1[ref]),
             log |-> << <<"set", st>>, <<"notify", st>> >>]

\* hasPeripheral without the lookup
hasPeripheral_Skipped(id) == TRUE

\* noble.peripherals[deviceId] is defined
hasPeripheral(id) == id \in peripherals

\* connectStart that calls the driver before it marks the record
connectStart_CallFirst(hp, ref, win) ==
    LET u == setState(hp, ref, "connecting", win)
    IN [heap |-> u.heap, sent |-> u.sent, log |-> << <<"call", "connect">> >> \o u.log]

\* bluetooth:connect up to its first await: mark the record, notify, call the driver
connectStart(hp, ref, win) ==
    LET u == setState(hp, ref, "connecting", win)
    IN [heap |-> u.heap, sent |-> u.sent, log |-> u.log \o << <<"call", "connect">> >>]

\* the success branch of the discoverServices callback
connectDiscovered(hp, ref, services, win) ==
    IF ref = NoRef
    THEN [heap |-> hp, sent |-> <<>>, log |-> <<>>]
    ELSE LET hp1 == [hp EXCEPT ![ref].state = "connected", ![ref].services = services]
         IN [heap |-> hp1,
             sent |-> Send(win, "bluetooth:deviceUpdated", hp1[ref]),
             log |-> << <<"set", "connected">>, <<"notify", "connected">> >>]

\* connectCatch that also empties the services of the record
connectCatch_DropsServices(hp, devs, id, win) ==
    IF Get(devs, id) = NoRef
    THEN [heap |-> hp, sent |-> <<>>, log |-> <<>>]
    ELSE setState([hp EXCEPT ![Get(devs, id)].services = <<>>], Get(devs, id),
                  "disconnected", win)

\* connectCatch that only reports the error, as the catch of bluetooth:disconnect does
connectCatch_ReportOnly(hp, devs, id, win) == [heap |-> hp, sent |-> <<>>, log |-> <<>>]

\* the catch block of bluetooth:connect: looks the record up again
connectCatch(hp, devs, id, win) == setState(hp, Get(devs, id), "disconnected", win)

\* bluetooth:disconnect up to its await
disconnectStart(hp, ref, win) ==
    LET u == setState(hp, ref, "disconnecting", win)
    IN [heap |-> u.heap, sent |-> u.sent, log |-> u.log \o << <<"call", "disconnect">> >>]

\* disconnectDone that leaves the record as it is
disconnectDone_Nothing(hp, ref, win) == [heap |-> hp, sent |-> <<>>, log |-> <<>>]

\* bluetooth:disconnect after its await
disconnectDone(hp, ref, win) == setState(hp, ref, "disconnected", win)

\* the catch block of bluetooth:disconnect: only reports the error
disconnectCatch(hp, devs, id, win) == [heap |-> hp, sent |-> <<>>, log |-> <<>>]

NotFound(act, id) ==
    /\ last' = Step(act, id, Some(Fail(<<"Device ", id, " not found">>)),
                    <<>>, << <<"return", "fail">> >>)
    /\ UNCHANGED <<resumeDue, nobleState, drvScanning, peripherals, mainWindow, devices, heap,
                   isScanning, handlers>>

\* a handler suspends at an await
Suspend(h, op, id, pc, ref, e) ==
    /\ handlers' = [handlers EXCEPT ![h] =
                        [op |-> op, id |-> id, pc |-> pc, dev |-> ref, log |-> e.log]]
    /\ heap' = e.heap
    /\ last' = Step(op, id, None, e.sent, e.log)
    /\ UNCHANGED <<resumeDue, nobleState, drvScanning, peripherals, mainWindow, devices, isScanning>>

\* a handler returns res after the effects e
Return(h, act, res, e, log) ==
    /\ Commit(devices, e.heap, [handlers EXCEPT ![h] = IdleHandler])
    /\ last' = Step(act, handlers[h].id, Some(res), e.sent, log)
    /\ UNCHANGED <<resumeDue, nobleState, drvScanning, peripherals, mainWindow, isScanning>>

\* ipcMain.handle('bluetooth:connect'), up to the await of peripheral.connect
Connect(id) ==
    IF ~hasPeripheral(id)
    THEN NotFound("connect", id)
    ELSE /\ FreeSlots # {}
         /\ LET ref == Get(devices, id)
            IN Suspend(Min(FreeSlots), "connect", id, "awaitConnect", ref,
                       connectStart(heap, ref, mainWindow))

\* the callback of peripheral.connect and the code it resumes
ConnectCallback(h, err) ==
    /\ handlers[h].pc = "awaitConnect"
    /\ LET me == handlers[h]
       IN IF err = None
          THEN LET log == me.log \o << <<"cb", "connect.ok">>, <<"call", "discoverServices">> >>
               IN /\ handlers' = [handlers EXCEPT ![h].pc = "awaitDiscover", ![h].log = log]
                  /\ last' = Step("connect.cb", me.id, None, <<>>, log)
                  /\ UNCHANGED <<resumeDue, nobleState, drvScanning, peripherals, mainWindow, devices,
                                 heap, isScanning>>
          ELSE LET c == connectCatch(heap, devices, me.id, mainWindow)
               IN Return(h, "connect.cb", Fail(<<err[1]>>), c,
                         me.log \o << <<"cb", "connect.err">>, <<"error", err[1]>> >> \o c.log
                                \o << <<"return", "fail">> >>)

\* the callback of peripheral.discoverServices and the code it resumes
DiscoverServicesCallback(h, err, services) ==
    /\ handlers[h].pc = "awaitDiscover"
    /\ LET me == handlers[h]
       IN IF err = None
          THEN LET d == connectDiscovered(heap, me.dev, services, mainWindow)
               IN Return(h, "discoverServices.cb", Ok(<<"Connected to device ", me.id>>), d,
                         me.log \o << <<"cb", "discoverServices.ok">> >> \o d.log
                                \o << <<"return", "ok">> >>)
          ELSE LET c == connectCatch(heap, devices, me.id, mainWindow)
               IN Return(h, "discoverServices.cb", Fail(<<err[1]>>), c,
                         me.log \o << <<"cb", "discoverServices.err">>, <<"error", err[1]>> >> \o c.log
                                \o << <<"return", "fail">> >>)

\* ipcMain.handle('bluetooth:disconnect'), up to the await of peripheral.disconnect
Disconnect(id) ==
    IF ~hasPeripheral(id)
    THEN NotFound("disconnect", id)
    ELSE /\ FreeSlots # {}
         /\ LET ref == Get(devices, id)
            IN Suspend(Min(FreeSlots), "disconnect", id, "awaitDisconnect", ref,
                       disconnectStart(heap, ref, mainWindow))

\* the callback of peripheral.disconnect and the code it resumes
DisconnectCallback(h, err) ==
    /\ handlers[h].pc = "awaitDisconnect"
    /\ LET me == handlers[h]
       IN IF err = None
          THEN LET d == disconnectDone(heap, me.dev, mainWindow)
               IN Return(h, "disconnect.cb", Ok(<<"Disconnected from device ", me.id>>), d,
                         me.log \o << <<"cb", "disconnect.ok">> >> \o d.log
                                \o << <<"return", "ok">> >>)
          ELSE LET c == disconnectCatch(heap, devices, me.id, mainWindow)
               IN Return(h, "disconnect.cb", Fail(<<err[1]>>), c,
                         me.log \o << <<"cb", "disconnect.err">>, <<"error", err[1]>> >> \o c.log
                                \o << <<"return", "fail">> >>)

-----------------------------------------------------------------------------
CallbackErrors == {None} \cup {Some(e) : e \in DriverErrors}

\* the host with commands from any caller, the renderer left out
Next ==
    \/ SetMainWindow /\ UNCHANGED <<rendererVars, linked, auxVars>>
    \/ (\E s \in AdapterStates : StateChange(s)) /\ UNCHANGED <<rendererVars, linked, auxVars>>
    \/ (\E id \in DeviceIds, adv \in Advertisements : Discover(id, adv))
            /\ UNCHANGED <<rendererVars, linked, auxVars>>
    \/ StartScan /\ UNCHANGED <<rendererVars, linked, auxVars>>
    \/ StopScan /\ UNCHANGED <<rendererVars, linked, auxVars>>
    \/ GetDevices /\ UNCHANGED <<rendererVars, linked, auxVars>>
    \/ (\E id \in CommandIds : Connect(id)) /\ UNCHANGED <<rendererVars, linked, auxVars>>
    \/ (\E h \in Slots, err \in CallbackErrors : ConnectCallback(h, err))
            /\ UNCHANGED <<rendererVars, linked, auxVars>>
    \/ (\E h \in Slots, err \in CallbackErrors, services \in ServiceLists :
            DiscoverServicesCallback(h, err, services)) /\ UNCHANGED <<rendererVars, linked, auxVars>>
    \/ (\E id \in CommandIds : Disconnect(id)) /\ UNCHANGED <<rendererVars, linked, auxVars>>
    \/ (\E h \in Slots, err \in CallbackErrors : DisconnectCallback(h, err))
            /\ UNCHANGED <<rendererVars, linked, auxVars>>

Spec == Init /\ [][Next]_vars

-----------------------------------------------------------------------------
(* The link of the driver's peripherals                                       *)
(*                                                                             *)
(* peripheral.state is the driver's: it becomes 'connected' when the driver    *)
(* reports a connect without error, 'disconnected' when it reports a           *)
(* disconnect without error, and 'disconnected' when the peripheral drops the  *)
(* link on its own.  The module registers listeners for 'stateChange' and      *)
(* 'discover' only, so no code of the host runs on a dropped link.             *)

\* peripheral.connect calls back
PeripheralConnect(h, err) ==
    /\ ConnectCallback(h, err)
    /\ linked' = IF err = None THEN linked \cup {handlers[h].id} ELSE linked

\* peripheral.disconnect calls back
PeripheralDisconnect(h, err) ==
    /\ DisconnectCallback(h, err)
    /\ linked' = IF err = None THEN linked \ {handlers[h].id} ELSE linked

\* the peripheral goes out of range or switches off: the link is gone and the
\* host is not told
LinkDrop(id) ==
    /\ id \in linked
    /\ linked' = linked \ {id}
    /\ UNCHANGED hostVars

\* the host and the links of the peripherals, the renderer left out
LinkNext ==
    \/ SetMainWindow /\ UNCHANGED <<rendererVars, linked, auxVars>>
    \/ (\E s \in AdapterStates : StateChange(s)) /\ UNCHANGED <<rendererVars, linked, auxVars>>
    \/ (\E id \in DeviceIds, adv \in Advertisements : Discover(id, adv))
            /\ UNCHANGED <<rendererVars, linked, auxVars>>
    \/ StartScan /\ UNCHANGED <<rendererVars, linked, auxVars>>
    \/ StopScan /\ UNCHANGED <<rendererVars, linked, auxVars>>
    \/ GetDevices /\ UNCHANGED <<rendererVars, linked, auxVars>>
    \/ (\E id \in CommandIds : Connect(id)) /\ UNCHANGED <<rendererVars, linked, auxVars>>
    \/ (\E h \in Slots, err \in CallbackErrors : PeripheralConnect(h, err))
            /\ UNCHANGED <<rendererVars, auxVars>>
    \/ (\E h \in Slots, err \in CallbackErrors, services \in ServiceLists :
            DiscoverServicesCallback(h, err, services)) /\ UNCHANGED <<rendererVars, linked, auxVars>>
    \/ (\E id \in CommandIds : Disconnect(id)) /\ UNCHANGED <<rendererVars, linked, auxVars>>
    \/ (\E h \in Slots, err \in CallbackErrors : PeripheralDisconnect(h, err))
            /\ UNCHANGED <<rendererVars, auxVars>>
    \/ (\E id \in DeviceIds : LinkDrop(id)) /\ UNCHANGED <<rendererVars, auxVars>>

LinkSpec == Init /\ [][LinkNext]_vars

-----------------------------------------------------------------------------
(* Renderer: BluetoothService (the UI Mirror) and the bluetooth store          *)
(*                                                                             *)
(* The renderer reaches the host through ipcRenderer.invoke and hears from it  *)
(* through webContents.send.  What the host sends, pushes and command results  *)
(* alike, travels in order through inbox; a command is handled by the host in  *)
(* the step that issues it.  The service has one command method (startScan,    *)
(* stopScan, connectToDevice, disconnectFromDevice) suspended at a time, so a  *)
(* device object a method holds across its await is written by that method     *)
(* only and is kept by value in service.call.  getDevices polls overlap freely *)
(* with it.                                                                    *)

\* number of messages that may be on their way to the renderer
MaxInbox == 2

PushChannels ==
    {"bluetooth:stateChange", "bluetooth:deviceDiscovered", "bluetooth:deviceUpdated"}

\* the result of an invoke, on its way back under the name of the handler's step
Reply(step) ==
    IF step.res = None THEN <<>> ELSE <<[channel |-> step.act, payload |-> step.res[1]]>>

\* what a host step sends to the renderer: its pushes, then its result
Outbox(step) == step.sent \o Reply(step)

Enqueue ==
    /\ Len(inbox) + Len(Outbox(last')) <= MaxInbox
    /\ inbox' = inbox \o Outbox(last')

\* this.devices.get(id) in the service, None standing for undefined
Existing(svc, id) == IF id \in DOMAIN svc.devices THEN Some(svc.devices[id]) ELSE None

\* if (existingDevice) { existingDevice.state = st; this.devices.set(id, existingDevice) }
mark(devs, existing, st) ==
    IF existing = None THEN devs
    ELSE Put(devs, existing[1].id, [existing[1] EXCEPT !.state = st])

\* onPush that drops the adapter state
onPush_IgnoresState(svc, m) ==
    IF m.channel = "bluetooth:stateChange"
    THEN svc
    ELSE [svc EXCEPT !.devices = Put(@, m.payload.id, m.payload)]

\* the listeners setupEventListeners registers with bluetooth.on
onPush(svc, m) ==
    IF m.channel = "bluetooth:stateChange"
    THEN [svc EXCEPT !.bluetoothState = m.payload]
    ELSE [svc EXCEPT !.devices = Put(@, m.payload.id, m.payload)]

\* merge that takes every field, state included, from the host's answer
merge_HostWins(devs, list) ==
    [id \in DOMAIN devs \cup {d.id : d \in list} |->
        IF \E d \in list : d.id = id THEN CHOOSE d \in list : d.id = id ELSE devs[id]]

\* the forEach of BluetoothService.getDevices over the host's answer
merge(devs, list) ==
    [id \in DOMAIN devs \cup {d.id : d \in list} |->
        IF \E d \in list : d.id = id
        THEN LET device == CHOOSE d \in list : d.id = id
             IN IF id \in DOMAIN devs
                THEN [device EXCEPT !.state = devs[id].state]
                ELSE device
        ELSE devs[id]]

\* the code after the await of the suspended command method; the promise of
\* invoke resolves with whatever result the handler returned
resume(svc) ==
    LET c == svc.call
        devs == IF c.op = "connect" THEN mark(svc.devices, c.dev, "connected")
                ELSE IF c.op = "disconnect" THEN mark(svc.devices, c.dev, "disconnected")
                ELSE svc.devices
    IN [svc EXCEPT !.devices = devs,
                   !.isScanning = IF c.op = "stopScan" THEN FALSE ELSE @,
                   !.call = NoCall]

\* number of 3-second timers of one device id that may be pending at once
MaxTimers == 1

\* failed that leaves the status the function set on entry
failed_StaysConnecting(st, id) ==
    [st EXCEPT !.connectionStatus[id] = "connecting", !.timers[id] = @ + 1]

\* failed that starts no timer
failed_NoTimer(st, id) == [st EXCEPT !.connectionStatus[id] = "failed"]

\* the catch block of store.connectToDevice / disconnectFromDevice:
\* connectionStatus[id] = 'failed' and setTimeout(() => connectionStatus[id] = '', 3000)
failed(st, id) ==
    [st EXCEPT !.connectionStatus[id] = "failed", !.timers[id] = @ + 1]

\* updateStatus that clears every status of a 'disconnected' device
updateStatus_AlwaysClears(cs, devs) ==
    [id \in DOMAIN cs |->
        IF id \notin DOMAIN devs THEN cs[id]
        ELSE IF devs[id].state \in {"connected", "connecting", "disconnecting"}
             THEN devs[id].state
             ELSE ""]

\* the forEach of store.updateDevicesList over the list getDevices returned
updateStatus(cs, devs) ==
    [id \in DOMAIN cs |->
        IF id \notin DOMAIN devs THEN cs[id]
        ELSE IF devs[id].state \in {"connected", "connecting", "disconnecting"}
             THEN devs[id].state
             ELSE IF cs[id] \in {"connecting", "disconnecting", "failed"}
                  THEN cs[id]
                  ELSE ""]

\* the code of the store after the await of the service method it called
continue(st, c) ==
    IF c.op = "connect" THEN [st EXCEPT !.connectionStatus[c.id] = "connected"]
    ELSE IF c.op = "disconnect" THEN [st EXCEPT !.connectionStatus[c.id] = ""]
    ELSE IF c.op = "stopScan" THEN [st EXCEPT !.isScanning = FALSE]
    ELSE st

\* a driver or window event of the host, with its pushes on their way
Host(A) == A /\ Enqueue /\ UNCHANGED <<service, store, linked>>

\* store.startScan -> BluetoothService.startScan, up to its await
ServiceStartScan ==
    /\ service.call = NoCall
    /\ StartScan
    /\ Enqueue
    /\ service' = [service EXCEPT !.devices = <<>>, !.isScanning = TRUE,
                                  !.call = [op |-> "startScan", id |-> "", dev |-> None]]
    /\ store' = [store EXCEPT !.isScanning = TRUE]
    /\ UNCHANGED linked

\* store.stopScan -> BluetoothService.stopScan, up to its await
ServiceStopScan ==
    /\ service.call = NoCall
    /\ StopScan
    /\ Enqueue
    /\ service' = [service EXCEPT !.call = [op |-> "stopScan", id |-> "", dev |-> None]]
    /\ UNCHANGED <<store, linked>>

\* store.connectToDevice(id): for a device of the store's list it calls
\* BluetoothService.connectToDevice(device) and runs up to the await of the
\* host's answer; for any other id it throws 'Device not found' and catches it
ConnectToDevice(id) ==
    IF id \notin store.devices
    THEN /\ store.timers[id] < MaxTimers
         /\ store' = failed(store, id)
         /\ UNCHANGED <<hostVars, service, inbox, linked>>
    ELSE /\ service.call = NoCall
         /\ Connect(id)
         /\ Enqueue
         /\ LET existing == Existing(service, id)
            IN service' = [service EXCEPT
                              !.devices = mark(@, existing, "connecting"),
                              !.call = [op |-> "connect", id |-> id,
                                        dev |-> IF existing = None THEN None
                                                ELSE Some([existing[1] EXCEPT !.state = "connecting"])]]
         /\ store' = [store EXCEPT !.connectionStatus[id] = "connecting"]
         /\ UNCHANGED linked

\* store.disconnectFromDevice(id), likewise
DisconnectFromDevice(id) ==
    IF id \notin store.devices
    THEN /\ store.timers[id] < MaxTimers
         /\ store' = failed(store, id)
         /\ UNCHANGED <<hostVars, service, inbox, linked>>
    ELSE /\ service.call = NoCall
         /\ Disconnect(id)
         /\ Enqueue
         /\ LET existing == Existing(service, id)
            IN service' = [service EXCEPT
                              !.devices = mark(@, existing, "disconnecting"),
                              !.call = [op |-> "disconnect", id |-> id,
                                        dev |-> IF existing = None THEN None
                                                ELSE Some([existing[1] EXCEPT !.state = "disconnecting"])]]
         /\ store' = [store EXCEPT !.connectionStatus[id] = "disconnecting"]
         /\ UNCHANGED linked

\* a 3-second timer of the store fires
TimerFires(id) ==
    /\ store.timers[id] > 0
    /\ store' = [store EXCEPT !.connectionStatus[id] = "", !.timers[id] = @ - 1]
    /\ UNCHANGED <<hostVars, service, inbox, linked>>

\* store.updateDevicesList -> BluetoothService.getDevices, up to its await: the
\* poll of the 1-second timer (startUpdatingDevices), or the one the store makes
\* after a command or on 'deviceStateChanged'
UpdateDevicesList ==
    /\ GetDevices
    /\ Enqueue
    /\ UNCHANGED <<service, store, linked>>

\* a push reaches the renderer
DeliverPush ==
    /\ inbox # <<>>
    /\ Head(inbox).channel \in PushChannels
    /\ service' = onPush(service, Head(inbox))
    /\ inbox' = Tail(inbox)
    /\ UNCHANGED <<nobleState, drvScanning, peripherals, mainWindow, devices, heap,
                   isScanning, handlers, last, resumeDue, store, linked>>

\* the answer to a poll reaches the renderer: getDevices merges it and
\* updateDevicesList takes the merged list
DeliverDevices ==
    /\ inbox # <<>>
    /\ Head(inbox).channel = "getDevices"
    /\ LET merged == merge(service.devices, Head(inbox).payload)
       IN /\ service' = [service EXCEPT !.devices = merged]
          /\ store' = [store EXCEPT
                          !.devices = DOMAIN merged,
                          !.isScanning = service.isScanning,
                          !.connectionStatus = updateStatus(@, merged)]
    /\ inbox' = Tail(inbox)
    /\ UNCHANGED <<nobleState, drvScanning, peripherals, mainWindow, devices, heap,
                   isScanning, handlers, last, resumeDue, linked>>

\* the result of the suspended command reaches the renderer: the service method
\* resumes and returns, then the store function that awaited it resumes; after a
\* connect or disconnect the store goes on to updateDevicesList, whose poll the
\* host answers in this step
DeliverResult ==
    /\ inbox # <<>>
    /\ Head(inbox).channel \notin PushChannels \cup {"getDevices"}
    /\ service' = resume(service)
    /\ store' = continue(store, service.call)
    /\ IF service.call.op \in {"connect", "disconnect"}
       THEN /\ GetDevices
            /\ inbox' = Tail(inbox) \o Outbox(last')
       ELSE /\ inbox' = Tail(inbox)
            /\ UNCHANGED hostVars
    /\ UNCHANGED linked

\* host and renderer together: every command comes from the renderer
MirrorNext ==
    \/ Host(SetMainWindow) /\ UNCHANGED auxVars
    \/ (\E s \in AdapterStates : Host(StateChange(s))) /\ UNCHANGED auxVars
    \/ (\E id \in DeviceIds, adv \in Advertisements : Host(Discover(id, adv)))
            /\ UNCHANGED auxVars
    \/ (\E h \in Slots, err \in CallbackErrors : Host(ConnectCallback(h, err)))
            /\ UNCHANGED auxVars
    \/ (\E h \in Slots, err \in CallbackErrors, services \in ServiceLists :
            Host(DiscoverServicesCallback(h, err, services))) /\ UNCHANGED auxVars
    \/ (\E h \in Slots, err \in CallbackErrors : Host(DisconnectCallback(h, err)))
            /\ UNCHANGED auxVars
    \/ ServiceStartScan /\ UNCHANGED auxVars
    \/ ServiceStopScan /\ UNCHANGED auxVars
    \/ (\E id \in DeviceIds : ConnectToDevice(id)) /\ UNCHANGED auxVars
    \/ (\E id \in DeviceIds : DisconnectFromDevice(id)) /\ UNCHANGED auxVars
    \/ UpdateDevicesList /\ UNCHANGED auxVars
    \/ (\E id \in DeviceIds : TimerFires(id)) /\ UNCHANGED auxVars
    \/ DeliverPush /\ UNCHANGED auxVars
    \/ DeliverDevices /\ UNCHANGED auxVars
    \/ DeliverResult /\ UNCHANGED auxVars

MirrorSpec == Init /\ [][MirrorNext]_vars

-----------------------------------------------------------------------------
(* Vocabulary of the properties *)

InRegistry(id) == id \in DOMAIN devices

\* the registry's record of id
Record(id) == heap[devices[id]]

Has(log, tok) == \E i \in DOMAIN log : log[i] = tok

IsPrefix(s, t) == Len(s) <= Len(t) /\ SubSeq(t, 1, Len(s)) = s

Calls(log) == {i \in DOMAIN log : log[i][1] = "call"}

\* the push a handler makes for the registry's record of id
Updated(id) == [channel |-> "bluetooth:deviceUpdated", payload |-> Record(id)]

Returned == last.res # None

\* the connect handler has just returned a failure of the driver
ConnectFailed ==
    /\ last.act \in {"connect.cb", "discoverServices.cb"}
    /\ Returned
    /\ ~last.res[1].success

\* the connect handler has just returned success
ConnectSucceeded ==
    /\ last.act = "discoverServices.cb"
    /\ Returned
    /\ last.res[1].success

\* the disconnect handler has just returned
DisconnectReturned == last.act = "disconnect.cb" /\ Returned

-----------------------------------------------------------------------------
(* C1 *)

\* C1 as stated: a failed connect(id) leaves the registry's record of id
\* 'disconnected', has pushed deviceUpdated carrying 'disconnected', and returns
\* {success: false, error: <driver message>}.
C1_FailedConnectAlwaysPushes ==
    (ConnectFailed /\ InRegistry(last.id)) =>
        /\ Record(last.id).state = "disconnected"
        /\ last.sent = <<Updated(last.id)>>
        /\ \E e \in DriverErrors : Has(last.log, <<"error", e>>) /\ last.res[1] = Fail(<<e>>)

\* C1 amended: a connect(id) that fails at the driver connect or at service
\* discovery returns {success: false, error: <driver message>}; if the registry
\* holds a record of id when the failure is handled, that record is 'disconnected'
\* on return and, when a main window has been set, exactly one deviceUpdated
\* carrying that record has been pushed (none without a window).
C1_FailedConnectResets ==
    ConnectFailed =>
        /\ \E e \in DriverErrors : Has(last.log, <<"error", e>>) /\ last.res[1] = Fail(<<e>>)
        /\ InRegistry(last.id) =>
              /\ Record(last.id).state = "disconnected"
              /\ mainWindow => last.sent = <<Updated(last.id)>>
              /\ ~mainWindow => last.sent = <<>>

\* a connect that failed during service discovery, with a window and a record
C1_Witness ==
    /\ ConnectFailed
    /\ last.act = "discoverServices.cb"
    /\ InRegistry(last.id)
    /\ mainWindow
    /\ Len(last.sent) = 1

-----------------------------------------------------------------------------
(* C2 *)

\* C2: when disconnect(id) completes, on the success and on the error path, the
\* registry's record of id is 'disconnected' and (with a window) deviceUpdated
\* carrying 'disconnected' has been pushed; on the error path the caller gets
\* {success: false, error}.
C2_DisconnectAlwaysResets ==
    (DisconnectReturned /\ InRegistry(last.id)) =>
        /\ Record(last.id).state = "disconnected"
        /\ mainWindow => (/\ Len(last.sent) = 1
                          /\ last.sent[1].channel = "bluetooth:deviceUpdated"
                          /\ last.sent[1].payload.state = "disconnected")
        /\ Has(last.log, <<"cb", "disconnect.err">>) => ~last.res[1].success

-----------------------------------------------------------------------------
(* C3 *)

HandlerActs == {"connect", "connect.cb", "discoverServices.cb", "disconnect", "disconnect.cb"}

\* C3: the state of a record the registry holds is written only by the connect
\* and disconnect handlers; a discovery callback for an id that has a record
\* leaves that record's state as it was.
C3_OnlyHandlersWriteState ==
    [][\A id \in DOMAIN devices \cap DOMAIN devices' :
          heap'[devices'[id]].state # Record(id).state => last'.act \in HandlerActs]_vars

-----------------------------------------------------------------------------
(* C4 *)

\* C4: startScan invoked while the adapter is 'poweredOn' returns with the
\* registry empty and the scanning flag true (the driver asked to scan), and an id
\* enters the registry only by a discovery callback for it.
C4_StartScanClears ==
    /\ [](last.act = "startScan" /\ nobleState = "poweredOn" =>
            /\ last.res = Some(Ok(<<"Scanning started">>))
            /\ DOMAIN devices = {}
            /\ DeviceList = {}
            /\ isScanning
            /\ drvScanning
            /\ Has(last.log, <<"call", "startScanning">>))
    /\ [][\A id \in DOMAIN devices' \ DOMAIN devices :
             last'.act = "discover" /\ last'.id = id]_vars

\* a scan started while a suspended handler still holds the record of an earlier scan
C4_Witness ==
    /\ last.act = "startScan"
    /\ nobleState = "poweredOn"
    /\ DOMAIN devices = {}
    /\ \E h \in Slots : handlers[h].dev # NoRef /\ heap[handlers[h].dev].state = "connecting"

-----------------------------------------------------------------------------
(* C5 *)

\* C5: startScan invoked while the adapter is not 'poweredOn' returns
\* {success: false, error} with the adapter state in the error text, leaves the
\* registry and the scanning flag as they were and calls no driver primitive.
C5_StartScanNotReady ==
    [][last'.act = "startScan" /\ nobleState # "poweredOn" =>
          /\ last'.res = Some(Fail(<<"Bluetooth adapter not ready (state: ", nobleState,
                                     "). Please ensure Bluetooth is enabled on your system.">>))
          /\ Calls(last'.log) = {}
          /\ UNCHANGED <<devices, heap, isScanning, drvScanning>>]_vars

\* startScan refused while the registry holds a device
C5_Witness ==
    /\ last.act = "startScan"
    /\ nobleState = "poweredOff"
    /\ Returned /\ ~last.res[1].success
    /\ DOMAIN devices # {}

-----------------------------------------------------------------------------
(* C6 *)

\* C6: connect(id) and disconnect(id) for an id absent from noble.peripherals
\* return {success: false, error: 'Device <id> not found'}, push nothing, call no
\* driver primitive and leave the registry unchanged.
C6_UnknownDevice ==
    [][last'.act \in {"connect", "disconnect"} /\ last'.id \notin peripherals =>
          /\ last'.res = Some(Fail(<<"Device ", last'.id, " not found">>))
          /\ last'.sent = <<>>
          /\ Calls(last'.log) = {}
          /\ UNCHANGED <<devices, heap, handlers>>]_vars

\* a command for an unknown id while the registry holds a device and a window is set
C6_Witness ==
    /\ last.act \in {"connect", "disconnect"}
    /\ last.id \notin peripherals
    /\ Returned
    /\ DOMAIN devices # {}
    /\ mainWindow

-----------------------------------------------------------------------------
(* C7 *)

\* what a successful connect on a device with a record does, in order
ConnectOrder ==
    << <<"set", "connecting">>, <<"notify", "connecting">>, <<"call", "connect">>,
       <<"cb", "connect.ok">>, <<"call", "discoverServices">>,
       <<"cb", "discoverServices.ok">>,
       <<"set", "connected">>, <<"notify", "connected">>, <<"return", "ok">> >>

\* the connect handler has just been invoked for an id with a record and suspended
ConnectStarted == last.act = "connect" /\ ~Returned /\ InRegistry(last.id)

\* a connect whose device had a record at invocation has just returned success
ConnectCompleted == ConnectSucceeded /\ Has(last.log, <<"set", "connecting">>)

\* connect proceeds in the order of ConnectOrder, from invocation to return
ConnectInOrder ==
    /\ \A h \in Slots :
          handlers[h].op = "connect" /\ handlers[h].dev # NoRef =>
              /\ IsPrefix(handlers[h].log, ConnectOrder)
              /\ handlers[h].log # ConnectOrder
    /\ ConnectStarted => Record(last.id).state = "connecting"
    /\ ConnectCompleted => last.log = ConnectOrder

-----------------------------------------------------------------------------
(* C8 *)

DisconnectOrder ==
    << <<"set", "disconnecting">>, <<"notify", "disconnecting">>, <<"call", "disconnect">>,
       <<"cb", "disconnect.ok">>,
       <<"set", "disconnected">>, <<"notify", "disconnected">>, <<"return", "ok">> >>

DisconnectStarted == last.act = "disconnect" /\ ~Returned /\ InRegistry(last.id)

\* a disconnect whose device had a record at invocation has just returned success
DisconnectCompleted ==
    /\ DisconnectReturned
    /\ last.res[1].success
    /\ Has(last.log, <<"set", "disconnecting">>)

DisconnectInOrder ==
    /\ \A h \in Slots :
          handlers[h].op = "disconnect" /\ handlers[h].dev # NoRef =>
              /\ IsPrefix(handlers[h].log, DisconnectOrder)
              /\ handlers[h].log # DisconnectOrder
    /\ DisconnectStarted => Record(last.id).state = "disconnecting"
    /\ DisconnectCompleted => last.log = DisconnectOrder

-----------------------------------------------------------------------------
(* C9 *)

\* the edges of the connection state machine, failure edges included
Edges ==
    { <<"disconnected", "connecting">>, <<"connecting", "connected">>,
      <<"connected", "disconnecting">>, <<"disconnecting", "disconnected">>,
      <<"connecting", "disconnected">> }

\* C9: every change a connect or disconnect handler makes to the state of a
\* registry record follows an edge of the connection state machine.
C9_StateMachineEdges ==
    [][\A id \in DOMAIN devices \cap DOMAIN devices' :
          (last'.act \in HandlerActs /\ heap'[devices'[id]].state # Record(id).state)
              => <<Record(id).state, heap'[devices'[id]].state>> \in Edges]_vars

-----------------------------------------------------------------------------
(* C10 *)

\* C10: for every device id at most one connect / disconnect is in flight.
C10_SingleFlight ==
    \A h1, h2 \in Slots :
        (h1 # h2 /\ Active(h1) /\ Active(h2)) => handlers[h1].id # handlers[h2].id

-----------------------------------------------------------------------------
(* C11 *)

\* C11: when the adapter returns to 'poweredOn' after it left 'poweredOn' during
\* an active scan, with no stopScan in between, the scan is resumed: the scanning
\* flag is true and the driver has been asked to scan again; and on every change
\* to a state other than 'poweredOn' the scan is stopped.
C11_ScanResumes ==
    [][last'.act = "stateChange" =>
          /\ (resumeDue /\ nobleState' = "poweredOn")
                => /\ isScanning'
                   /\ drvScanning'
                   /\ Has(last'.log, <<"call", "startScanning">>)
          /\ nobleState' # "poweredOn" => ~drvScanning']_vars

-----------------------------------------------------------------------------
(* C12 *)

DiscoveredPushes(sent) ==
    {i \in DOMAIN sent : sent[i].channel = "bluetooth:deviceDiscovered"}

\* C12: when the adapter reports 'poweredOff' during a scan, the scanning flag
\* becomes false and the driver scan is stopped, and as long as the adapter has not
\* reported 'poweredOn' again no discovery is processed and no deviceDiscovered
\* event is pushed.
C12_PoweredOffSilences ==
    [][/\ (last'.act = "stateChange" /\ nobleState' = "poweredOff" /\ isScanning)
             => /\ ~isScanning'
                /\ ~drvScanning'
                /\ Has(last'.log, <<"call", "stopScanning">>)
       /\ (nobleState # "poweredOn" /\ nobleState' # "poweredOn")
             => /\ last'.act # "discover"
                /\ DiscoveredPushes(last'.sent) = {}]_vars

\* the adapter has just reported 'poweredOff' during a scan that had been
\* reporting discoveries to an attached window
C12_Witness ==
    /\ last.act = "stateChange"
    /\ nobleState = "poweredOff"
    /\ resumeDue
    /\ mainWindow
    /\ devices # <<>>

-----------------------------------------------------------------------------
(* C13 *)

\* C13: stopScan succeeds from every host state, leaves the scanning flag false
\* and the registry (the records and their fields) as it was, and a stopScan
\* that directly follows a stopScan changes nothing at all.
C13_StopScanIdempotent ==
    [][last'.act = "stopScan" =>
          /\ last'.res = Some(Ok(<<"Scanning stopped">>))
          /\ ~isScanning'
          /\ devices' = devices
          /\ heap' = heap
          /\ last.act = "stopScan" => UNCHANGED vars]_vars

\* stopScan has answered while the adapter was off, so that no scan was active,
\* with a record in the registry and a connect or disconnect in flight
C13_Witness ==
    /\ last.act = "stopScan"
    /\ last.res = Some(Ok(<<"Scanning stopped">>))
    /\ nobleState = "poweredOff"
    /\ devices # <<>>
    /\ \E h \in Slots : Active(h)

-----------------------------------------------------------------------------
(* C14 *)

\* the step is a successful startScan, which empties the registry
Cleared == last.act = "startScan" /\ last.res[1].success

-----------------------------------------------------------------------------
(* C15 *)

\* the connect handler has just returned a failure of service discovery
DiscoveryFailed ==
    /\ last.act = "discoverServices.cb"
    /\ Returned
    /\ ~last.res[1].success

\* the handler in slot h returns in this step
Returns(h) == Active(h) /\ handlers'[h].pc = "idle"

\* C15 as stated: a connect(id) that fails during service discovery returns
\* {success: false, error}, leaves the registry's record of id 'disconnected', and
\* leaves its services as they were before the connect.  The services before the
\* connect are those of the object the handler read at invocation, as long as no
\* successful connect has written discovered services to it.
C15_ServicesAsBeforeConnect ==
    [][\A h \in Slots :
          (DiscoveryFailed' /\ Returns(h) /\ handlers[h].dev # NoRef
                /\ heap[handlers[h].dev].services \notin ServiceLists)
             => /\ \E e \in DriverErrors : last'.res[1] = Fail(<<e>>)
                /\ handlers[h].id \in DOMAIN devices'
                /\ heap'[devices'[handlers[h].id]].state = "disconnected"
                /\ heap'[devices'[handlers[h].id]].services
                      = heap[handlers[h].dev].services]_vars

\* C15 amended: a connect(id) whose driver connect succeeded and whose service
\* discovery reports an error returns {success: false, error: <driver message>};
\* if the registry holds a record of id then, that record is 'disconnected' on
\* return; and no step of the attempt (the invocation, the connect callback, the
\* failed discovery callback) changes the services of a registry record.
C15_FailedDiscoveryKeepsServices ==
    /\ [](DiscoveryFailed =>
             /\ Has(last.log, <<"cb", "connect.ok">>)
             /\ \E e \in DriverErrors : last.res[1] = Fail(<<e>>)
             /\ InRegistry(last.id) => Record(last.id).state = "disconnected")
    /\ [][(last'.act \in {"connect", "connect.cb"} \/ DiscoveryFailed')
             => \A id \in DOMAIN devices :
                   /\ id \in DOMAIN devices'
                   /\ heap'[devices'[id]].services = Record(id).services]_vars

\* service discovery has failed for a record whose services were empty and whose
\* state the handler had set to 'connecting'
C15_Witness ==
    /\ DiscoveryFailed
    /\ InRegistry(last.id)
    /\ Record(last.id).state = "disconnected"
    /\ Record(last.id).services = <<>>
    /\ Has(last.log, <<"set", "connecting">>)
    /\ Has(last.log, <<"set", "disconnected">>)

-----------------------------------------------------------------------------
(* C16 *)

\* the renderer takes a message of channel ch from inbox in this step
Delivered(ch) ==
    /\ inbox # <<>>
    /\ Head(inbox).channel = ch
    /\ inbox' = Tail(inbox)

\* C16: when the Mirror merges the answer to a getDevices poll, every reported
\* device whose id the Mirror held keeps the Mirror's state and takes all other
\* fields from the answer, and every reported device whose id the Mirror did not
\* hold is taken as reported, state included.
C16_PollMerge ==
    [][Delivered("getDevices") =>
          \A d \in Head(inbox).payload :
             /\ d.id \in DOMAIN service'.devices
             /\ LET got == service'.devices[d.id]
                IN /\ got.id = d.id
                   /\ got.name = d.name
                   /\ got.address = d.address
                   /\ got.rssi = d.rssi
                   /\ got.services = d.services
                   /\ got.state = IF d.id \in DOMAIN service.devices
                                  THEN service.devices[d.id].state
                                  ELSE d.state]_vars

\* after an earlier merge, the answer to a poll is about to be merged that reports
\* d1 with another state, rssi and services than the Mirror holds for d1
C16_Witness ==
    /\ store.devices = {"d1"}
    /\ inbox # <<>>
    /\ Head(inbox).channel = "getDevices"
    /\ "d1" \in DOMAIN service.devices
    /\ \E d \in Head(inbox).payload :
          /\ d.id = "d1"
          /\ d.state = "connected"
          /\ service.devices["d1"].state = "disconnected"
          /\ d.rssi # service.devices["d1"].rssi
          /\ d.services # service.devices["d1"].services

\* the answer to a poll is about to be merged that reports d1, in a state other
\* than 'disconnected', to a Mirror that does not hold d1
C16_WitnessNew ==
    /\ inbox # <<>>
    /\ Head(inbox).channel = "getDevices"
    /\ "d1" \notin DOMAIN service.devices
    /\ \E d \in Head(inbox).payload : d.id = "d1" /\ d.state # "disconnected"

-----------------------------------------------------------------------------
(* C17 *)

\* the messages the host sends in this step
Emitted ==
    IF Len(inbox') > Len(inbox) THEN SubSeq(inbox', Len(inbox) + 1, Len(inbox')) ELSE <<>>

\* C17: the payload of every deviceUpdated push equals the registry's record of
\* that id when it is emitted, and once the Mirror has applied the push its
\* record of that id equals the payload.
C17_UpdatedRoundTrip ==
    [][/\ \A i \in DOMAIN Emitted :
             Emitted[i].channel = "bluetooth:deviceUpdated"
                => /\ Emitted[i].payload.id \in DOMAIN devices'
                   /\ Emitted[i].payload = heap'[devices'[Emitted[i].payload.id]]
       /\ Delivered("bluetooth:deviceUpdated")
             => /\ Head(inbox).payload.id \in DOMAIN service'.devices
                /\ service'.devices[Head(inbox).payload.id] = Head(inbox).payload]_vars

-----------------------------------------------------------------------------
(* C18 *)

\* the Mirror holds the ids the registry holds, with equal fields
MirrorMatchesHost ==
    /\ DOMAIN service.devices = DOMAIN devices
    /\ \A id \in DOMAIN devices : service.devices[id] = Record(id)

\* nothing is on its way to the renderer but the answer to a poll of the
\* registry as it is now
PollSettles ==
    /\ Len(inbox) = 1
    /\ Head(inbox).channel = "getDevices"
    /\ Head(inbox).payload = DeviceList

\* C18: once everything the host sent has been delivered and the host does not
\* change, the poll makes the Mirror equal to the registry: when the answer to a
\* poll of the present registry is the only message left and the Mirror merges
\* it, the Mirror holds the registry's ids with equal fields, state included.
\* (A later poll of the same registry changes nothing in the Mirror, so this
\* is the state the Mirror stays in.)
C18_PollConverges ==
    [][(PollSettles /\ Delivered("getDevices")) => MirrorMatchesHost']_vars

-----------------------------------------------------------------------------
(* C19 *)

\* C19: the Mirror's registry changes only in a step that delivers a push or the
\* answer to a poll; issuing startScan, stopScan, connectToDevice or
\* disconnectFromDevice, and the return of their results, leave its ids and the
\* fields of its records as they were.
C19_MirrorWrittenByHostOnly ==
    [][service'.devices # service.devices
          => \/ Delivered("bluetooth:deviceDiscovered")
             \/ Delivered("bluetooth:deviceUpdated")
             \/ Delivered("getDevices")]_vars

-----------------------------------------------------------------------------
(* C20 *)

\* the steps in which a connect or disconnect handler returns
CommandResults ==
    {"connect", "connect.cb", "discoverServices.cb", "disconnect", "disconnect.cb"}

\* the renderer takes the failure result of its connect or disconnect in this
\* step; the pushes the handler made were sent, and so delivered, before it
FailureDelivered ==
    /\ inbox # <<>>
    /\ Head(inbox).channel \in CommandResults
    /\ service.call # NoCall
    /\ service'.call = NoCall
    /\ ~Head(inbox).payload.success

\* C20: once the failure result of a connect(id) or disconnect(id) and the pushes
\* the handler made have been delivered, the Mirror's record of id is neither
\* 'connecting' nor 'disconnecting'.
C20_NoStuckTransition ==
    [][FailureDelivered =>
          (service.call.id \in DOMAIN service'.devices
              => service'.devices[service.call.id].state
                    \notin {"connecting", "disconnecting"})]_vars

-----------------------------------------------------------------------------
(* C23 *)

\* the steps of the startScan, stopScan, connect and disconnect handlers
CommandActs ==
    {"startScan", "stopScan", "connect", "connect.cb", "discoverServices.cb",
     "disconnect", "disconnect.cb"}

\* r is {success: true, message} or {success: false, error}
Structured(r) ==
    \/ DOMAIN r = {"success", "message"} /\ r.success = TRUE
    \/ DOMAIN r = {"success", "error"} /\ r.success = FALSE

\* C23: every step of a startScan, stopScan, connect or disconnect handler either
\* returns a structured result, {success: true, message} or {success: false,
\* error}, or leaves the handler waiting for a driver callback; startScan and
\* stopScan always return, and whatever error the driver reports to a callback
\* comes back as {success: false, error}.
C23_StructuredResults ==
    last.act \in CommandActs =>
        IF Returned
        THEN Structured(last.res[1])
        ELSE /\ last.act \in {"connect", "connect.cb", "disconnect"}
             /\ \E h \in Slots : Active(h) /\ handlers[h].id = last.id

\* the driver has failed the service discovery of a connect and the handler has
\* returned the failure
C23_Witness ==
    /\ last.act = "discoverServices.cb"
    /\ Returned
    /\ ~last.res[1].success
    /\ last.res[1].error = <<"Peripheral disconnected">>

-----------------------------------------------------------------------------
(* C25 *)

\* the Host Registry: the record of each id
Registry == [id \in DOMAIN devices |-> heap[devices[id]]]

\* C25: a startScan, stopScan or getDevices that directly follows the same
\* command, no driver callback or other command in between, leaves the registry,
\* the scanning flag and the driver's scan as the first one left them and
\* returns the result the first one returned.
C25_RetrySafe ==
    [][\A a \in {"startScan", "stopScan", "getDevices"} :
          (last.act = a /\ last'.act = a)
              => /\ Registry' = Registry
                 /\ isScanning' = isScanning
                 /\ drvScanning' = drvScanning
                 /\ last'.res = last.res]_vars

\* startScan has started a scan and emptied the registry while a connect or
\* disconnect still holds a record of the earlier scan: the state a retry of
\* startScan starts from
C25_Witness ==
    /\ last.act = "startScan"
    /\ last.res = Some(Ok(<<"Scanning started">>))
    /\ isScanning
    /\ devices = <<>>
    /\ \E h \in Slots : Active(h) /\ handlers[h].dev # NoRef

-----------------------------------------------------------------------------
(* C26 *)

\* rec is the record the claim describes for advertisement adv of peripheral id
InsertedAs(rec, id, adv) ==
    /\ rec.id = id
    /\ rec.address = Address(id)
    /\ rec.rssi = adv.rssi
    /\ rec.state = "disconnected"
    /\ rec.name = IF adv.localName = None THEN "Unknown Device" ELSE adv.localName[1]
    /\ rec.services = IF adv.serviceUuids = None THEN <<>> ELSE adv.serviceUuids[1]

-----------------------------------------------------------------------------
(* C28 *)

\* C28: whenever the connect(id) handler returns {success: true}, the registry
\* holds a record of id whose state is 'connected' and whose services are the
\* services the driver discovered.
C28_SuccessMeansConnected ==
    ConnectSucceeded =>
        /\ InRegistry(last.id)
        /\ Record(last.id).state = "connected"
        /\ Record(last.id).services \in ServiceLists

-----------------------------------------------------------------------------
(* C27 *)

\* a connect or disconnect command for id is in flight
InFlight(id) == \E h \in Slots : Active(h) /\ handlers[h].id = id

\* C27: whenever no connect or disconnect command is in flight for id, the
\* registry's record of id is 'connected' only if the driver's peripheral of id
\* is connected.
C27_ConnectedMeansLinked ==
    \A id \in DOMAIN devices :
        (~InFlight(id) /\ Record(id).state = "connected") => id \in linked

-----------------------------------------------------------------------------
(* C21 *)

\* C21: whenever the failure result of the host's connect(id) or disconnect(id)
\* reaches the renderer, the store sets connectionStatus[id] to 'failed' (and
\* starts the 3-second timer that clears it).
C21_FailureShowsFailed ==
    [][FailureDelivered =>
          /\ store'.connectionStatus[service.call.id] = "failed"
          /\ store'.timers[service.call.id] > 0]_vars

-----------------------------------------------------------------------------
(* C22 *)

\* C22: whenever the store shows connectionStatus[id] = 'failed', one of its
\* 3-second timers for id is pending and can fire in that very state, whatever
\* the host has sent or not sent; and the step in which a timer for id fires
\* leaves connectionStatus[id] = ''.  So a 'failed' status is cleared as soon as
\* the timer fires, no push or poll answer being needed.
C22_FailedClearedByTimer ==
    /\ [](\A id \in DeviceIds :
             store.connectionStatus[id] = "failed"
                 => store.timers[id] > 0 /\ ENABLED TimerFires(id))
    /\ [][\A id \in DeviceIds :
             TimerFires(id) => store'.connectionStatus[id] = ""]_vars

\* the store shows 'failed' for d1 with its timer pending, nothing is on its way
\* from the host and no command is awaiting an answer
C22_Witness ==
    /\ store.connectionStatus["d1"] = "failed"
    /\ store.timers["d1"] > 0
    /\ inbox = <<>>
    /\ service.call = NoCall
    /\ "d1" \in store.devices

-----------------------------------------------------------------------------
(* C24 *)

\* the stateChange event that carries adapter state st
StateEvent(st) == [channel |-> "bluetooth:stateChange", payload |-> st]

\* C24 as stated: on every adapter state callback the host pushes one
\* stateChange event whose payload is the new adapter state.
C24_StateChangeAlwaysPushed ==
    [][nobleState' # nobleState => Emitted = <<StateEvent(nobleState')>>]_vars

\* C24 amended: on an adapter state callback the host pushes one stateChange
\* event carrying the new adapter state when a main window has been set and
\* nothing otherwise; the delivery of a stateChange event sets the Mirror's
\* bluetoothState to its payload, and nothing else changes the Mirror's
\* bluetoothState, which therefore is the adapter state of the most recently
\* delivered stateChange event.
C24_StateChangeMirrored ==
    [][/\ nobleState' # nobleState =>
             /\ mainWindow => Emitted = <<StateEvent(nobleState')>>
             /\ ~mainWindow => Emitted = <<>>
       /\ Delivered("bluetooth:stateChange")
             => service'.bluetoothState = Head(inbox).payload
       /\ service'.bluetoothState # service.bluetoothState
             => Delivered("bluetooth:stateChange")]_vars

\* the Mirror holds 'poweredOn' from the last stateChange event delivered, while
\* the adapter has gone to 'poweredOff' and the event that says so is on its way
C24_Witness ==
    /\ service.bluetoothState = "poweredOn"
    /\ nobleState = "poweredOff"
    /\ inbox = <<StateEvent("poweredOff")>>

-----------------------------------------------------------------------------
(* C29 *)

\* C29: once the host's failure result of connect(id) has reached the renderer,
\* neither the Mirror's record of id nor the store's connectionStatus[id] is
\* 'connected'.
C29_FailedConnectNotConnected ==
    [][(FailureDelivered /\ service.call.op = "connect") =>
          /\ service.call.id \in DOMAIN service'.devices
                => service'.devices[service.call.id].state # "connected"
          /\ store'.connectionStatus[service.call.id] # "connected"]_vars

-----------------------------------------------------------------------------
(* C30 *)

\* C30: whenever no startScan or stopScan command is awaiting its answer, the
\* Mirror's scanning flag equals the host's scanning flag.
C30_ScanFlagMirrored ==
    service.call.op \notin {"startScan", "stopScan"} => service.isScanning = isScanning

-----------------------------------------------------------------------------
(* C31 *)

\* C31: the 3-second timer only ever replaces a 'failed' status: when it fires
\* while connectionStatus[id] is 'connecting', 'connected' or 'disconnecting',
\* it leaves that status as it is.
C31_TimerOnlyClearsFailed ==
    [][\A id \in DeviceIds :
          (TimerFires(id)
             /\ store.connectionStatus[id] \in {"connecting", "connected", "disconnecting"})
              => store'.connectionStatus[id] = store.connectionStatus[id]]_vars

-----------------------------------------------------------------------------
(* C34 *)

\* C34: store.connectToDevice(id) and store.disconnectFromDevice(id) for an id
\* that is absent from the store's list set connectionStatus[id] to 'failed',
\* send no command to the host (the host does not move and nothing is on its
\* way back) and leave the Mirror, its registry included, as it was.
C34_AbsentIdFailsLocally ==
    [][\A id \in DeviceIds :
          (id \notin store.devices /\ (ConnectToDevice(id) \/ DisconnectFromDevice(id)))
              => /\ store'.connectionStatus[id] = "failed"
                 /\ UNCHANGED hostVars
                 /\ inbox' = inbox
                 /\ service' = service]_vars

\* the store shows 'failed' for d1, which its list does not hold, while the
\* Mirror holds a record of d1 that a push brought, and no command is in flight
C34_Witness ==
    /\ "d1" \notin store.devices
    /\ store.connectionStatus["d1"] = "failed"
    /\ store.timers["d1"] > 0
    /\ "d1" \in DOMAIN service.devices
    /\ service.call = NoCall
    /\ \A h \in Slots : ~Active(h)

-----------------------------------------------------------------------------
(* C35 *)

\* C35: when updateDevicesList has taken the merged list, for every device of
\* the list: if its state is 'connected', 'connecting' or 'disconnecting',
\* connectionStatus[id] is that state; if its state is 'disconnected',
\* connectionStatus[id] is what it was before when that was 'connecting',
\* 'disconnecting' or 'failed', and '' otherwise.
C35_StatusFollowsList ==
    [][Delivered("getDevices") =>
          \A id \in DOMAIN service'.devices :
             LET state == service'.devices[id].state
                 before == store.connectionStatus[id]
                 after == store'.connectionStatus[id]
             IN /\ state \in {"connected", "connecting", "disconnecting"} => after = state
                /\ state = "disconnected" =>
                      after = IF before \in {"connecting", "disconnecting", "failed"}
                              THEN before ELSE ""]_vars

\* the answer to a poll is about to be taken while the Mirror holds d1 as
\* 'disconnected' and the store shows 'failed' for d1
C35_Witness ==
    /\ inbox # <<>>
    /\ Head(inbox).channel = "getDevices"
    /\ "d1" \in DOMAIN service.devices
    /\ service.devices["d1"].state = "disconnected"
    /\ store.connectionStatus["d1"] = "failed"

-----------------------------------------------------------------------------
(* Two hosts                                                                   *)
(*                                                                             *)
(* twin is a second BluetoothModule on which setMainWindow is never called.    *)
(* It is handed every command and every driver callback the first host is      *)
(* handed, in the same order.  Each handler is written once more as a function *)
(* of the module's fields t and of whether a window is set, built from the     *)
(* same pieces as the actions above; res and sent are what the step returned   *)
(* and pushed.                                                                 *)

\* the fields after a step that left registry and handlers as devs, hp, hs
committed(t, devs, hp, hs, res, sent) ==
    LET n == Normalize(devs, hp, hs)
    IN [t EXCEPT !.devices = n.devices, !.heap = n.heap, !.handlers = n.handlers,
                 !.res = res, !.sent = sent]

\* noble.on('stateChange') on the fields t
onStateChange(t, win, s) ==
    LET r == IF s = "poweredOn" /\ t.isScanning
             THEN startScanning(s, t.drvScanning, t.isScanning)
             ELSE IF s # "poweredOn"
                  THEN stopScanning
                  ELSE [drv |-> t.drvScanning, scanning |-> t.isScanning, log |-> <<>>]
    IN [t EXCEPT !.drvScanning = r.drv, !.isScanning = r.scanning,
                 !.res = None, !.sent = Send(win, "bluetooth:stateChange", s)]

\* noble.on('discover') on the fields t
onDiscover(t, win, id, adv) ==
    LET device == NewDevice(id, adv)
        ref == Min(Refs \ DOMAIN t.heap)
    IN committed(t, Put(t.devices, id, ref), Put(t.heap, ref, device), t.handlers,
                 None, Send(win, "bluetooth:deviceDiscovered", device))

\* ipcMain.handle('bluetooth:startScan') on the fields t
handleStartScan(t, win, st) ==
    IF ~adapterReady(st)
    THEN [t EXCEPT !.res = Some(Fail(<<"Bluetooth adapter not ready (state: ", st,
                                       "). Please ensure Bluetooth is enabled on your system.">>)),
                   !.sent = <<>>]
    ELSE LET r == startScanning(st, t.drvScanning, t.isScanning)
             c == committed(t, clear(t.devices), t.heap, t.handlers,
                            Some(Ok(<<"Scanning started">>)), <<>>)
         IN [c EXCEPT !.drvScanning = r.drv, !.isScanning = r.scanning]

\* ipcMain.handle('bluetooth:stopScan') on the fields t
handleStopScan(t, win) ==
    [t EXCEPT !.drvScanning = stopScanning.drv, !.isScanning = stopScanning.scanning,
              !.res = Some(Ok(<<"Scanning stopped">>)), !.sent = <<>>]

\* ipcMain.handle('bluetooth:getDevices') on the fields t
handleGetDevices(t, win) ==
    [t EXCEPT !.res = Some({t.heap[t.devices[i]] : i \in DOMAIN t.devices}), !.sent = <<>>]

\* a handler on the fields t suspends at an await
suspended(t, op, id, pc, ref, e) ==
    LET free == {h \in Slots : t.handlers[h].pc = "idle"}
    IN IF free = {} THEN t
       ELSE [t EXCEPT !.handlers[Min(free)] =
                          [op |-> op, id |-> id, pc |-> pc, dev |-> ref, log |-> e.log],
                      !.heap = e.heap, !.res = None, !.sent = e.sent]

\* a handler on the fields t returns res after the effects e
returned(t, h, res, e) ==
    committed(t, t.devices, e.heap, [t.handlers EXCEPT ![h] = IdleHandler], Some(res), e.sent)

notFound(t, id) ==
    [t EXCEPT !.res = Some(Fail(<<"Device ", id, " not found">>)), !.sent = <<>>]

\* ipcMain.handle('bluetooth:connect') on the fields t, up to its first await
handleConnect(t, win, id) ==
    IF ~hasPeripheral(id)
    THEN notFound(t, id)
    ELSE suspended(t, "connect", id, "awaitConnect", Get(t.devices, id),
                   connectStart(t.heap, Get(t.devices, id), win))

\* the callback of peripheral.connect on the fields t
onConnectCallback(t, win, h, err) ==
    LET me == t.handlers[h]
    IN IF err = None
       THEN [t EXCEPT !.handlers[h].pc = "awaitDiscover",
                      !.handlers[h].log = me.log \o << <<"cb", "connect.ok">>,
                                                      <<"call", "discoverServices">> >>,
                      !.res = None, !.sent = <<>>]
       ELSE returned(t, h, Fail(<<err[1]>>), connectCatch(t.heap, t.devices, me.id, win))

\* the callback of peripheral.discoverServices on the fields t
onDiscoverServicesCallback(t, win, h, err, services) ==
    LET me == t.handlers[h]
    IN IF err = None
       THEN returned(t, h, Ok(<<"Connected to device ", me.id>>),
                     connectDiscovered(t.heap, me.dev, services, win))
       ELSE returned(t, h, Fail(<<err[1]>>), connectCatch(t.heap, t.devices, me.id, win))

\* ipcMain.handle('bluetooth:disconnect') on the fields t, up to its await
handleDisconnect(t, win, id) ==
    IF ~hasPeripheral(id)
    THEN notFound(t, id)
    ELSE suspended(t, "disconnect", id, "awaitDisconnect", Get(t.devices, id),
                   disconnectStart(t.heap, Get(t.devices, id), win))

\* the callback of peripheral.disconnect on the fields t
onDisconnectCallback(t, win, h, err) ==
    LET me == t.handlers[h]
    IN IF err = None
       THEN returned(t, h, Ok(<<"Disconnected from device ", me.id>>),
                     disconnectDone(t.heap, me.dev, win))
       ELSE returned(t, h, Fail(<<err[1]>>), disconnectCatch(t.heap, t.devices, me.id, win))

\* the twin's window
NoWindow == FALSE

\* both hosts take the same step; only the first may be given a window
TwinNext ==
    \/ SetMainWindow /\ twin' = [twin EXCEPT !.res = None, !.sent = <<>>]
            /\ UNCHANGED <<rendererVars, linked, poll, ipc>>
    \/ (\E s \in AdapterStates : StateChange(s) /\ twin' = onStateChange(twin, NoWindow, s))
            /\ UNCHANGED <<rendererVars, linked, poll, ipc>>
    \/ (\E id \in DeviceIds, adv \in Advertisements :
            Discover(id, adv) /\ twin' = onDiscover(twin, NoWindow, id, adv))
            /\ UNCHANGED <<rendererVars, linked, poll, ipc>>
    \/ StartScan /\ twin' = handleStartScan(twin, NoWindow, nobleState)
            /\ UNCHANGED <<rendererVars, linked, poll, ipc>>
    \/ StopScan /\ twin' = handleStopScan(twin, NoWindow)
            /\ UNCHANGED <<rendererVars, linked, poll, ipc>>
    \/ GetDevices /\ twin' = handleGetDevices(twin, NoWindow)
            /\ UNCHANGED <<rendererVars, linked, poll, ipc>>
    \/ (\E id \in CommandIds : Connect(id) /\ twin' = handleConnect(twin, NoWindow, id))
            /\ UNCHANGED <<rendererVars, linked, poll, ipc>>
    \/ (\E h \in Slots, err \in CallbackErrors :
            ConnectCallback(h, err) /\ twin' = onConnectCallback(twin, NoWindow, h, err))
            /\ UNCHANGED <<rendererVars, linked, poll, ipc>>
    \/ (\E h \in Slots, err \in CallbackErrors, services \in ServiceLists :
            /\ DiscoverServicesCallback(h, err, services)
            /\ twin' = onDiscoverServicesCallback(twin, NoWindow, h, err, services))
            /\ UNCHANGED <<rendererVars, linked, poll, ipc>>
    \/ (\E id \in CommandIds : Disconnect(id) /\ twin' = handleDisconnect(twin, NoWindow, id))
            /\ UNCHANGED <<rendererVars, linked, poll, ipc>>
    \/ (\E h \in Slots, err \in CallbackErrors :
            DisconnectCallback(h, err) /\ twin' = onDisconnectCallback(twin, NoWindow, h, err))
            /\ UNCHANGED <<rendererVars, linked, poll, ipc>>

TwinSpec == Init /\ [][TwinNext]_vars

\* C33: a host that is never given a window holds the same Host Registry and
\* scanning flag as a host that may be given one and returns the same result to
\* every command, when both are handed the same commands and driver callbacks;
\* and the host without a window pushes no event.
C33_WindowIndependent ==
    /\ twin.devices = devices
    /\ twin.heap = heap
    /\ twin.isScanning = isScanning
    /\ twin.res = last.res
    /\ twin.sent = <<>>

\* the host with a window has pushed the record of a device it just connected
\* and returned success, while the host without one returned the same and pushed
\* nothing
C33_Witness ==
    /\ mainWindow
    /\ last.act = "discoverServices.cb"
    /\ last.res = Some(Ok(<<"Connected to device ", "d1">>))
    /\ last.sent # <<>>
    /\ twin.res = last.res
    /\ twin.sent = <<>>
    /\ InRegistry("d1")
    /\ twin.heap[twin.devices["d1"]].state = "connected"

-----------------------------------------------------------------------------
(* Components that use the store                                               *)
(*                                                                             *)
(* A component that calls useBluetoothDevices registers, when it is mounted,   *)
(* a 'deviceStateChanged' listener of the store on the shared service and      *)
(* starts the store's poll timer; when it is unmounted it stops the poll timer *)
(* and the scan.  poll.intervals holds the ids of the running setInterval      *)
(* timers, poll.updateInterval the store's updateInterval ref, poll.listeners  *)
(* the length of the service's array of 'deviceStateChanged' listeners, each   *)
(* of which calls updateDevicesList, and poll.mounted the number of mounted    *)
(* components.  The adapter is switched on and stays on, the driver reports no *)
(* error, and the components connect and never disconnect.                     *)

\* number of times a component is mounted
MaxMounts == 2

\* store.setupEventListeners(): bluetoothService.on('deviceStateChanged', ...)
\* pushes one more listener
setupEventListeners(p) == [p EXCEPT !.listeners = @ + 1]

\* the timer part of store.startUpdatingDevices(): setInterval returns the id of a
\* new timer, which is stored over whatever updateInterval held
startUpdatingDevices(p) ==
    LET id == Min((1..MaxMounts) \ p.intervals)
    IN [p EXCEPT !.intervals = @ \cup {id}, !.updateInterval = Some(id)]

\* store.stopUpdatingDevices()
stopUpdatingDevices(p) ==
    IF p.updateInterval = None THEN p
    ELSE [p EXCEPT !.intervals = @ \ {p.updateInterval[1]}, !.updateInterval = None]

\* n calls of updateDevicesList, each an invoke of bluetooth:getDevices that the
\* host answers from its registry before it handles what is sent after them
Polls(n) == [i \in 1..n |-> [channel |-> "getDevices", payload |-> DeviceList]]

\* notifyListeners('deviceStateChanged', device): every listener is called
notifyListeners(p) == p.listeners

\* onMounted of useBluetoothDevices
Mount ==
    /\ poll.listeners < MaxMounts
    /\ UpdateDevicesList
    /\ poll' = [startUpdatingDevices(setupEventListeners(poll)) EXCEPT !.mounted = @ + 1]

\* onUnmounted of useBluetoothDevices
Unmount ==
    /\ poll.mounted > 0
    /\ ServiceStopScan
    /\ poll' = [stopUpdatingDevices(poll) EXCEPT !.mounted = @ - 1]

\* a poll timer fires
IntervalFires(i) ==
    /\ i \in poll.intervals
    /\ UpdateDevicesList
    /\ UNCHANGED poll

\* store.connectToDevice(id) with the listeners: the service notifies
\* 'deviceStateChanged' when it marks its record 'connecting', before it invokes
\* bluetooth:connect
ListenedConnect(id) ==
    IF id \notin store.devices
    THEN ConnectToDevice(id) /\ UNCHANGED poll
    ELSE LET existing == Existing(service, id)
             n == IF existing = None THEN 0 ELSE notifyListeners(poll)
             polls == Polls(n)
         IN /\ service.call = NoCall
            /\ Connect(id)
            /\ Len(inbox) + n + Len(Outbox(last')) <= MaxInbox
            /\ inbox' = inbox \o polls \o Outbox(last')
            /\ service' = [service EXCEPT
                              !.devices = mark(@, existing, "connecting"),
                              !.call = [op |-> "connect", id |-> id,
                                        dev |-> IF existing = None THEN None
                                                ELSE Some([existing[1] EXCEPT !.state = "connecting"])]]
            /\ store' = [store EXCEPT !.connectionStatus[id] = "connecting"]
            /\ UNCHANGED <<linked, poll>>

\* a push reaches the renderer; on 'bluetooth:deviceUpdated' the service also
\* notifies 'deviceStateChanged'
ListenedPush ==
    /\ inbox # <<>>
    /\ Head(inbox).channel \in PushChannels
    /\ service' = onPush(service, Head(inbox))
    /\ LET n == IF Head(inbox).channel = "bluetooth:deviceUpdated"
                THEN notifyListeners(poll) ELSE 0
       IN /\ Len(inbox) - 1 + n <= MaxInbox
          /\ inbox' = Tail(inbox) \o Polls(n)
          /\ IF n > 0 THEN GetDevices ELSE UNCHANGED hostVars
    /\ UNCHANGED <<store, linked, poll>>

\* the result of the suspended command reaches the renderer; the service
\* notifies 'deviceStateChanged' when it marks its record, then the store polls
ListenedResult ==
    /\ inbox # <<>>
    /\ Head(inbox).channel \notin PushChannels \cup {"getDevices"}
    /\ service' = resume(service)
    /\ store' = continue(store, service.call)
    /\ LET c == service.call
           n == IF c.op \in {"connect", "disconnect"}
                THEN (IF c.dev = None THEN 0 ELSE notifyListeners(poll)) + 1
                ELSE 0
       IN /\ Len(inbox) - 1 + n <= MaxInbox
          /\ inbox' = Tail(inbox) \o Polls(n)
          /\ IF n > 0 THEN GetDevices ELSE UNCHANGED hostVars
    /\ UNCHANGED <<linked, poll>>

\* host, renderer and components
PollNext ==
    \/ Host(SetMainWindow) /\ UNCHANGED <<poll, twin, ipc>>
    \/ Host(StateChange("poweredOn")) /\ UNCHANGED <<poll, twin, ipc>>
    \/ (\E id \in DeviceIds, adv \in Advertisements : Host(Discover(id, adv)))
            /\ UNCHANGED <<poll, twin, ipc>>
    \/ (\E h \in Slots : Host(ConnectCallback(h, None))) /\ UNCHANGED <<poll, twin, ipc>>
    \/ (\E h \in Slots, services \in ServiceLists :
            Host(DiscoverServicesCallback(h, None, services))) /\ UNCHANGED <<poll, twin, ipc>>
    \/ ServiceStartScan /\ UNCHANGED <<poll, twin, ipc>>
    \/ Mount /\ UNCHANGED <<twin, ipc>>
    \/ Unmount /\ UNCHANGED <<twin, ipc>>
    \/ (\E i \in 1..MaxMounts : IntervalFires(i)) /\ UNCHANGED <<twin, ipc>>
    \/ (\E id \in DeviceIds : ListenedConnect(id)) /\ UNCHANGED <<twin, ipc>>
    \/ (\E id \in DeviceIds : TimerFires(id)) /\ UNCHANGED <<poll, twin, ipc>>
    \/ ListenedPush /\ UNCHANGED <<twin, ipc>>
    \/ DeliverDevices /\ UNCHANGED <<poll, twin, ipc>>
    \/ ListenedResult /\ UNCHANGED <<twin, ipc>>

PollSpec == Init /\ [][PollNext]_vars

\* C32: at most one poll timer of the store is running, and none is running while
\* the store's updateInterval is null, that is from a stopUpdatingDevices call to
\* the next startUpdatingDevices call
C32_OnePollTimer ==
    /\ Cardinality(poll.intervals) <= 1
    /\ poll.updateInterval = None => poll.intervals = {}

\* C36: a 'bluetooth:deviceUpdated' push makes the store call updateDevicesList
\* at most once for every component that is mounted: the listener a component
\* registered is gone once it is unmounted
C36_ListenersDoNotGrow ==
    [][(ListenedPush /\ Head(inbox).channel = "bluetooth:deviceUpdated")
          => Len(inbox') - (Len(inbox) - 1) <= poll.mounted]_vars

-----------------------------------------------------------------------------
(* The preload's bluetooth.on                                                  *)
(*                                                                             *)
(* ipc.listeners is the listener list of ipcRenderer, in the order of          *)
(* registration, for all channels together.  Every call of bluetooth.on makes  *)
(* a new wrapper function around the callback; a wrapper is named by the       *)
(* number of the call that made it.  ipc.subscriptions records the calls of    *)
(* bluetooth.on: the arguments, the function returned (None for the empty      *)
(* function, else the channel and wrapper it closes over) and whether that     *)
(* function has been called.  ipc.invoked lists the wrappers the last push     *)
(* ran, with their callbacks.                                                  *)

\* number of calls of bluetooth.on
MaxSubscriptions == 3

\* const validEvents = ['stateChange', 'deviceDiscovered', 'deviceUpdated']
validEvents == {"stateChange", "deviceDiscovered", "deviceUpdated"}

\* event names a caller may pass: the valid ones, one the service offers to its
\* own listeners only, and the name of a command
EventNames == validEvents \cup {"deviceStateChanged", "connect"}

Callbacks == {"cb1", "cb2"}

\* `bluetooth:${event}`
channelOf(event) ==
    CASE event = "stateChange" -> "bluetooth:stateChange"
      [] event = "deviceDiscovered" -> "bluetooth:deviceDiscovered"
      [] event = "deviceUpdated" -> "bluetooth:deviceUpdated"
      [] event = "deviceStateChanged" -> "bluetooth:deviceStateChanged"
      [] event = "connect" -> "bluetooth:connect"

\* removeListener that removes every listener of the channel
removeListener_WholeChannel(ls, channel, wrapper) ==
    SelectSeq(ls, LAMBDA l : l.channel # channel)

\* ipcRenderer.removeListener(channel, listener): removes the most recently added
\* instance of the listener from the channel's list, if there is one
removeListener(ls, channel, wrapper) ==
    LET hits == {i \in DOMAIN ls : ls[i].channel = channel /\ ls[i].wrapper = wrapper}
    IN IF hits = {} THEN ls
       ELSE LET k == CHOOSE i \in hits : \A j \in hits : j <= i
            IN SubSeq(ls, 1, k - 1) \o SubSeq(ls, k + 1, Len(ls))

\* bluetooth.on(event, callback)
On(event, callback) ==
    /\ Len(ipc.subscriptions) < MaxSubscriptions
    /\ LET wrapper == Len(ipc.subscriptions) + 1
       IN IF event \notin validEvents
          THEN ipc' = [ipc EXCEPT !.subscriptions =
                          Append(@, [event |-> event, callback |-> callback,
                                     unsubscribe |-> None, called |-> FALSE])]
          ELSE ipc' = [ipc EXCEPT
                          !.listeners = Append(@, [channel |-> channelOf(event),
                                                   wrapper |-> wrapper,
                                                   callback |-> callback]),
                          !.subscriptions =
                              Append(@, [event |-> event, callback |-> callback,
                                         unsubscribe |-> Some([channel |-> channelOf(event),
                                                               wrapper |-> wrapper]),
                                         called |-> FALSE])]
    /\ UNCHANGED <<hostVars, rendererVars, linked, twin, poll>>

\* the function the k-th call of bluetooth.on returned is called
Unsubscribe(k) ==
    /\ k \in DOMAIN ipc.subscriptions
    /\ LET u == ipc.subscriptions[k].unsubscribe
       IN ipc' = [ipc EXCEPT
                     !.listeners = IF u = None THEN @
                                   ELSE removeListener(@, u[1].channel, u[1].wrapper),
                     !.subscriptions[k].called = TRUE]
    /\ UNCHANGED <<hostVars, rendererVars, linked, twin, poll>>

\* a push of the host arrives on channel: ipcRenderer calls the channel's
\* listeners in the order of registration, and each wrapper calls its callback
Push(channel) ==
    /\ ipc' = [ipc EXCEPT !.invoked =
                  [i \in DOMAIN SelectSeq(ipc.listeners, LAMBDA l : l.channel = channel) |->
                      LET l == SelectSeq(ipc.listeners, LAMBDA m : m.channel = channel)[i]
                      IN [wrapper |-> l.wrapper, callback |-> l.callback]]]
    /\ UNCHANGED <<hostVars, rendererVars, linked, twin, poll>>

PreloadNext ==
    \/ \E event \in EventNames, callback \in Callbacks : On(event, callback)
    \/ \E k \in 1..MaxSubscriptions : Unsubscribe(k)
    \/ \E channel \in PushChannels : Push(channel)

PreloadSpec == Init /\ [][PreloadNext]_vars

\* the calls of bluetooth.on whose listener is to be registered: those for a valid
\* event whose returned function has not been called
Subscribed ==
    {k \in DOMAIN ipc.subscriptions :
        ipc.subscriptions[k].event \in validEvents /\ ~ipc.subscriptions[k].called}

\* C37: the listeners registered on ipcRenderer are exactly one for every call of
\* bluetooth.on with 'stateChange', 'deviceDiscovered' or 'deviceUpdated' whose
\* returned function has not been called, on the channel of that event and with
\* that callback; a call with any other event name returns an empty function; and
\* a push runs the callbacks of these listeners on its channel and no other, so
\* none whose unsubscribe function has been called.
C37_OnRegistersValidEventsOnly ==
    /\ [](/\ Len(ipc.listeners) = Cardinality(Subscribed)
          /\ \A k \in Subscribed :
                \E i \in DOMAIN ipc.listeners :
                    ipc.listeners[i] = [channel |-> channelOf(ipc.subscriptions[k].event),
                                        wrapper |-> k,
                                        callback |-> ipc.subscriptions[k].callback]
          /\ \A k \in DOMAIN ipc.subscriptions :
                ipc.subscriptions[k].event \notin validEvents
                    => ipc.subscriptions[k].unsubscribe = None)
    /\ [][\A channel \in PushChannels :
             Push(channel) =>
                 /\ \A i \in DOMAIN ipc'.invoked : ipc'.invoked[i].wrapper \in Subscribed
                 /\ \A k \in Subscribed :
                       channelOf(ipc.subscriptions[k].event) = channel
                           => \E i \in DOMAIN ipc'.invoked :
                                 ipc'.invoked[i] = [wrapper |-> k,
                                                    callback |-> ipc.subscriptions[k].callback]]_vars

\* cb1 was registered for 'deviceUpdated' twice and one of the two was
\* unsubscribed, a call with 'deviceStateChanged' registered nothing, and the
\* last push ran cb1 once
C37_Witness ==
    /\ Len(ipc.subscriptions) = 3
    /\ ipc.subscriptions[1].event = "deviceUpdated" /\ ipc.subscriptions[1].called
    /\ ipc.subscriptions[2].event = "deviceUpdated" /\ ~ipc.subscriptions[2].called
    /\ ipc.subscriptions[1].callback = "cb1" /\ ipc.subscriptions[2].callback = "cb1"
    /\ ipc.subscriptions[3].event = "deviceStateChanged" /\ ipc.subscriptions[3].called
    /\ ipc.invoked = <<[wrapper |-> 2, callback |-> "cb1"]>>

====
